---- MODULE Spec2Model ----
(***************************************************************************)
(* Model of the clinic booking system: the reminder scheduler              *)
(* (services/reminder_service.py) over the reminders and appointments      *)
(* tables (database.py), the booking handler (app.py) and the no-show      *)
(* prediction service (services/ml_service.py).                            *)
(*                                                                         *)
(* Spec        the scheduler driven one call at a time (the reference      *)
(*             behaviour: single-threaded, request-driven), every call     *)
(*             running to its commit.                                      *)
(* SpecPlan    schedule_reminders applied to one appointment.              *)
(* SpecConc    two process_scheduled_reminders calls and one               *)
(*             cancel_reminders call running in overlapping requests, each *)
(*             in its own database session, interleaved statement by       *)
(*             statement.                                                  *)
(* SpecBook    one create_appointment request beside the scheduler calls.  *)
(* SpecService the ML service driven one call at a time: predictions,      *)
(*             training runs and restarts of the process.                  *)
(* SpecTrain   one train_model call beside predict_no_show calls on the    *)
(*             shared service instance, interleaved line by line.          *)
(* SpecCore    predictions for the stored appointments beside the          *)
(*             scheduler calls, on a service that loaded a saved model.    *)
(* SpecFault   the scheduler with runs whose query or commit may fail.     *)
(* SpecSend    the scheduler over the reminders schedule_reminders built   *)
(*             for one appointment.                                        *)
(* SpecUpdate  SpecSend with update_appointment and delete_patient_data.   *)
(***************************************************************************)
EXTENDS Integers, Sequences, FiniteSets, TLC

VARIABLES
    now,          \* datetime.utcnow(), in clock units
    appointments, \* the appointments table: id -> row (committed)
    reminders,    \* the reminders table: id -> row (committed)
    dispatched,   \* per reminder, the results of the send_reminder calls made for it
    booking,      \* the Appointment object handed to schedule_reminders
    planned,      \* schedule_reminders' call state and return value
    response,     \* what POST /api/appointments last returned
    proc,         \* per overlapping request: its position and its session
    writers,      \* per reminder, the requests whose commit wrote its status
    ml,           \* the MLService instance: model, scaler, label_encoders
    disk,         \* the file at model_path
    training,     \* the train_model call: its position, dataset and return value
    predicting,   \* the predict_no_show call: its position, input and return value
    origin        \* how the instance came to hold its model and scaler

schedVars == <<now, appointments, reminders, dispatched>>
planVars == <<booking, planned, response>>
concVars == <<proc, writers>>
mlVars == <<ml, disk, training, predicting, origin>>
vars == <<now, appointments, reminders, dispatched, booking, planned, response, proc, writers,
          ml, disk, training, predicting, origin>>

\* ---------------------------------------------------------------- bounds
NumReminders == 3
MaxTime == 1

ReminderIds == 1..NumReminders
AppointmentIds == {1, 2}
Times == 0..MaxTime

\* Appointment times handed to the planner, in hours.
MaxAppointmentTime == 96
AppointmentTimes == 0..MaxAppointmentTime

\* ---------------------------------------------------------------- values
\* A nullable column or an optional dict key: None, or Some(v).
None == <<>>
Some(v) == <<v>>

\* Reminder.reminder_type: email, sms, chat.  Row r of the table carries
\* channel ReminderTypeOf(r).
ReminderTypes == <<"chat", "email", "sms">>
ReminderTypeOf(r) == ReminderTypes[((r - 1) % Len(ReminderTypes)) + 1]

Errors == {"x"}

\* What the delivery transport (SendGrid, Twilio) answers for one message.
TransportOutcomes ==
    {[success |-> TRUE, error |-> None]}
        \cup {[success |-> FALSE, error |-> Some(e)] : e \in Errors}

\* What happens around one due reminder inside the loop: the appointment
\* lookup raises, or it returns and the transport answers.
Fates ==
    {[lookup |-> "raise", transport |-> [success |-> TRUE, error |-> None]]}
        \cup {[lookup |-> "ok", transport |-> t] : t \in TransportOutcomes}

\* A reminders row as the Reminder constructor leaves it (status 'scheduled',
\* the nullable columns NULL).
NewReminder(appointment_id, reminder_type, scheduled_time, message_content) ==
    [appointment_id  |-> appointment_id,
     reminder_type   |-> reminder_type,
     scheduled_time  |-> scheduled_time,
     message_content |-> message_content,
     status          |-> "scheduled",
     sent_time       |-> None,
     delivery_status |-> None,
     error_message   |-> None]

\* An Appointment object: its columns and its patient and clinic
\* relationships (None when the referenced row does not exist).
Appointment(id, appointment_time, appointment_type, patient, clinic) ==
    [id               |-> id,
     appointment_time |-> appointment_time,
     appointment_type |-> appointment_type,
     status           |-> "scheduled",
     patient          |-> patient,
     clinic           |-> clinic]

AppointmentRow(id) ==
    Appointment(id, MaxAppointmentTime, "consultation", Some("John Doe"),
                Some("Test Clinic"))

NotPlanned == [done |-> FALSE, reminders |-> <<>>]

\* The overlapping requests of SpecConc.
Scanners == {"scan1", "scan2"}
Cancellers == {"cancel1"}
Requests == Scanners \cup Cancellers

\* A request that has not started: nothing selected, an empty session.
IdleRequest == [pc |-> "idle", todo |-> {}, loaded |-> <<>>, session |-> <<>>]

\* ---------------------------------------------------------------- send_reminder
SendReminder(reminder_type, transport) ==
    CASE reminder_type = "email" -> transport
      [] reminder_type = "sms"   -> transport
      [] reminder_type = "chat"  -> [success |-> TRUE, error |-> None]
      [] OTHER -> [success |-> FALSE, error |-> Some("Invalid reminder type")]

\* ---------------------------------------------------------------- schedule_reminders
\* Whether rendering the templates raises: each f-string reads
\* appointment.patient.name, appointment.clinic.name and
\* appointment.clinic.phone.
MessageRaises(appointment) ==
    appointment.patient = None \/ appointment.clinic = None

\* The rendered text: the template of (category, reminder_type) with the
\* values it interpolates.
GenerateMessageContent(appointment, reminder_type, category) ==
    IF /\ category \in {"early_reminder", "standard_reminder",
                        "day_before_reminder", "final_reminder"}
       /\ reminder_type \in {"email", "sms"}
    THEN [template         |-> <<category, reminder_type>>,
          patient_name     |-> appointment.patient[1],
          appointment_time |-> appointment.appointment_time,
          clinic_name      |-> appointment.clinic[1]]
    ELSE [template         |-> <<"Appointment reminder">>,
          patient_name     |-> "",
          appointment_time |-> appointment.appointment_time,
          clinic_name      |-> ""]

\* The message content _send_email_reminder and _send_sms_reminder render for
\* the transport (lines 208-210, 237-239), before the transport's own
\* formatting; _send_chat_reminder renders none.  send_reminder is handed the
\* appointment and the channel, not the reminder.
SentMessage(appointment, reminder_type) ==
    CASE reminder_type = "email" ->
            Some(GenerateMessageContent(appointment, "email", "standard_reminder"))
      [] reminder_type = "sms" ->
            Some(GenerateMessageContent(appointment, "sms", "day_before_reminder"))
      [] OTHER -> None

\* _create_reminder: Some(reminder), or None when building it raised.
CreateReminder(appointment, reminder_type, scheduled_time, reminder_category) ==
    IF MessageRaises(appointment)
    THEN None
    ELSE Some(NewReminder(appointment.id, reminder_type, scheduled_time,
                          GenerateMessageContent(appointment, reminder_type,
                                                 reminder_category)))

\* Variant of the cadence with the day-before reminder sent by email.
ScheduleRemindersList_DayBeforeByEmail(appointment) ==
    CreateReminder(appointment, "email",
                   appointment.appointment_time - 72, "early_reminder")
    \o CreateReminder(appointment, "email",
                      appointment.appointment_time - 48, "standard_reminder")
    \o CreateReminder(appointment, "email",
                      appointment.appointment_time - 24, "day_before_reminder")
    \o CreateReminder(appointment, "sms",
                      appointment.appointment_time - 2, "final_reminder")

\* The list schedule_reminders returns: the reminders that could be built, in
\* the order 72h, 48h, 24h, 2h.
ScheduleRemindersList(appointment) ==
    CreateReminder(appointment, "email",
                   appointment.appointment_time - 72, "early_reminder")
    \o CreateReminder(appointment, "email",
                      appointment.appointment_time - 48, "standard_reminder")
    \o CreateReminder(appointment, "sms",
                      appointment.appointment_time - 24, "day_before_reminder")
    \o CreateReminder(appointment, "sms",
                      appointment.appointment_time - 2, "final_reminder")

ScheduleReminders ==
    /\ ~planned.done
    /\ planned' = [done |-> TRUE, reminders |-> ScheduleRemindersList(booking)]
    /\ UNCHANGED <<booking, response, schedVars, concVars, mlVars>>

\* ---------------------------------------------------------------- process_scheduled_reminders
\* Variants of the due-scan's filter with one condition dropped.
IsDue_IgnoresStatus(rem, current_time) ==
    rem.scheduled_time <= current_time

IsDue_IgnoresTime(rem, current_time) ==
    rem.status = "scheduled"

\* The due-scan's filter.
IsDue(rem, current_time) ==
    rem.scheduled_time <= current_time /\ rem.status = "scheduled"

DueReminders(table, current_time) ==
    {r \in DOMAIN table : IsDue(table[r], current_time)}

\* Whether the loop body reaches send_reminder for this reminder.
Dispatches(rem, appts, fate) ==
    fate.lookup = "ok" /\ rem.appointment_id \in DOMAIN appts

\* Variant of the loop body that marks the reminder sent whatever
\* send_reminder returned.
ProcessOne_IgnoresResult(rem, appts, fate, sent_at) ==
    IF fate.lookup = "raise"
    THEN [rem EXCEPT !.status = "failed",
                     !.error_message = Some("lookup error")]
    ELSE IF rem.appointment_id \notin DOMAIN appts
    THEN [rem EXCEPT !.status = "failed",
                     !.error_message = Some("Appointment not found")]
    ELSE [rem EXCEPT !.status = "sent",
                     !.sent_time = Some(sent_at),
                     !.delivery_status = Some("delivered")]

\* Variant of the loop body that records a fixed text instead of
\* result['error'].
ProcessOne_FixedError(rem, appts, fate, sent_at) ==
    IF fate.lookup = "raise"
    THEN [rem EXCEPT !.status = "failed",
                     !.error_message = Some("lookup error")]
    ELSE IF rem.appointment_id \notin DOMAIN appts
    THEN [rem EXCEPT !.status = "failed",
                     !.error_message = Some("Appointment not found")]
    ELSE LET result == SendReminder(rem.reminder_type, fate.transport)
         IN IF result.success
            THEN [rem EXCEPT !.status = "sent",
                             !.sent_time = Some(sent_at),
                             !.delivery_status = Some("delivered")]
            ELSE [rem EXCEPT !.status = "failed",
                             !.error_message = Some("Failed to send reminder")]

\* Variant of the loop body without the 'if not appointment' branch.
ProcessOne_NoAppointmentCheck(rem, appts, fate, sent_at) ==
    IF fate.lookup = "raise"
    THEN [rem EXCEPT !.status = "failed",
                     !.error_message = Some("lookup error")]
    ELSE LET result == SendReminder(rem.reminder_type, fate.transport)
         IN IF result.success
            THEN [rem EXCEPT !.status = "sent",
                             !.sent_time = Some(sent_at),
                             !.delivery_status = Some("delivered")]
            ELSE [rem EXCEPT !.status = "failed",
                             !.error_message = result.error]

\* One iteration of the loop over due_reminders: the row as the iteration
\* leaves it.
ProcessOne(rem, appts, fate, sent_at) ==
    IF fate.lookup = "raise"
    THEN [rem EXCEPT !.status = "failed",
                     !.error_message = Some("lookup error")]
    ELSE IF rem.appointment_id \notin DOMAIN appts
    THEN [rem EXCEPT !.status = "failed",
                     !.error_message = Some("Appointment not found")]
    ELSE LET result == SendReminder(rem.reminder_type, fate.transport)
         IN IF result.success
            THEN [rem EXCEPT !.status = "sent",
                             !.sent_time = Some(sent_at),
                             !.delivery_status = Some("delivered")]
            ELSE [rem EXCEPT !.status = "failed",
                             !.error_message = result.error]

\* The send_reminder result the loop body obtains for this reminder.
DispatchResult(rem, fate) == SendReminder(rem.reminder_type, fate.transport)

\* Variant of the loop without its inner try/except: the first exception ends
\* the loop, and the due reminders after it are left as they were.
ProcessSession_StopsAtException(table, appts, current_time, fates) ==
    [r \in DOMAIN table |->
        IF /\ r \in DueReminders(table, current_time)
           /\ \A q \in DueReminders(table, current_time) :
                 q < r => fates[q].lookup # "raise"
        THEN ProcessOne(table[r], appts, fates[r], current_time)
        ELSE table[r]]

\* The table as the loop leaves it in the session, committed at the end.
ProcessSession(table, appts, current_time, fates) ==
    [r \in DOMAIN table |->
        IF r \in DueReminders(table, current_time)
        THEN ProcessOne(table[r], appts, fates[r], current_time)
        ELSE table[r]]

\* processed_count of the return value: the reminders the run sent.
ProcessedCount(table, appts, current_time, fates) ==
    Cardinality({r \in DueReminders(table, current_time) :
                    ProcessOne(table[r], appts, fates[r], current_time).status = "sent"})

ProcessScheduledRemindersWith(fates) ==
    LET due == DueReminders(reminders, now)
    IN /\ reminders' = ProcessSession(reminders, appointments, now, fates)
       /\ dispatched' = [r \in ReminderIds |->
             IF r \in due /\ Dispatches(reminders[r], appointments, fates[r])
             THEN Append(dispatched[r], DispatchResult(reminders[r], fates[r]))
             ELSE dispatched[r]]
       /\ UNCHANGED <<now, appointments, planVars, concVars, mlVars>>

ProcessScheduledReminders ==
    \E fates \in [DueReminders(reminders, now) -> Fates] :
        ProcessScheduledRemindersWith(fates)

\* ---------------------------------------------------------------- get_reminder_stats
CountStatus(table, status) ==
    Cardinality({r \in DOMAIN table : table[r].status = status})

\* success_rate is the fraction sent / total * 100, kept as num / den.
GetReminderStats(table) ==
    [total_reminders     |-> Cardinality(DOMAIN table),
     sent_reminders      |-> CountStatus(table, "sent"),
     failed_reminders    |-> CountStatus(table, "failed"),
     scheduled_reminders |-> CountStatus(table, "scheduled"),
     success_rate        |->
        IF Cardinality(DOMAIN table) > 0
        THEN [num |-> CountStatus(table, "sent") * 100,
              den |-> Cardinality(DOMAIN table)]
        ELSE [num |-> 0, den |-> 1]]

\* ---------------------------------------------------------------- cancel_reminders
\* Variants of the cancellation query with one filter dropped.
CancelSelection_IgnoresStatus(table, appointment_id) ==
    {r \in DOMAIN table : table[r].appointment_id = appointment_id}

CancelSelection_IgnoresAppointment(table, appointment_id) ==
    {r \in DOMAIN table : table[r].status = "scheduled"}

\* The cancellation query.
CancelSelection(table, appointment_id) ==
    {r \in DOMAIN table : /\ table[r].appointment_id = appointment_id
                          /\ table[r].status = "scheduled"}

CancelOne(rem) == [rem EXCEPT !.status = "cancelled"]

CancelSession(table, appointment_id) ==
    [r \in DOMAIN table |->
        IF r \in CancelSelection(table, appointment_id)
        THEN CancelOne(table[r])
        ELSE table[r]]

\* The return value of cancel_reminders.
CancelResult(table, appointment_id) ==
    [success |-> TRUE,
     cancelled_count |-> Cardinality(CancelSelection(table, appointment_id))]

\* Variant of cancel_reminders that also marks the appointment cancelled.
CancelReminders_CancelsAppointment(appointment_id) ==
    /\ reminders' = CancelSession(reminders, appointment_id)
    /\ appointments' = [a \in DOMAIN appointments |->
                          IF a = appointment_id
                          THEN [appointments[a] EXCEPT !.status = "cancelled"]
                          ELSE appointments[a]]
    /\ UNCHANGED <<now, dispatched, planVars, concVars, mlVars>>

CancelReminders(appointment_id) ==
    /\ reminders' = CancelSession(reminders, appointment_id)
    /\ UNCHANGED <<now, appointments, dispatched, planVars, concVars, mlVars>>

\* ---------------------------------------------------------------- overlapping requests
\* db.session.commit(): one UPDATE per modified object, by primary key,
\* setting the columns the session changed since it loaded the object.
Flush(table, loaded, session) ==
    [r \in DOMAIN table |->
        IF r \in DOMAIN session
        THEN [f \in DOMAIN table[r] |->
                IF session[r][f] # loaded[r][f] THEN session[r][f] ELSE table[r][f]]
        ELSE table[r]]

\* The reminders whose status the commit of this session writes.
StatusWrites(loaded, session) ==
    {r \in DOMAIN session : session[r].status # loaded[r].status}

Commit(p) ==
    /\ reminders' = Flush(reminders, proc[p].loaded, proc[p].session)
    /\ writers' = [r \in ReminderIds |->
                     IF r \in StatusWrites(proc[p].loaded, proc[p].session)
                     THEN writers[r] \cup {p}
                     ELSE writers[r]]
    /\ proc' = [proc EXCEPT ![p] = [IdleRequest EXCEPT !.pc = "done"]]

\* The next reminder of the list the query returned.
NextOf(todo) == CHOOSE r \in todo : \A q \in todo : r <= q

\* process_scheduled_reminders, the query: the due reminders are loaded into
\* the request's session.
ScanQuery(p) ==
    /\ proc[p].pc = "idle"
    /\ LET due == DueReminders(reminders, now)
           rows == [r \in due |-> reminders[r]]
       IN proc' = [proc EXCEPT ![p] =
                     [pc |-> "loop", todo |-> due, loaded |-> rows, session |-> rows]]
    /\ UNCHANGED <<schedVars, planVars, writers, mlVars>>

\* process_scheduled_reminders, one iteration of the loop, on the object the
\* query loaded.
ScanIterate(p) ==
    /\ proc[p].pc = "loop"
    /\ proc[p].todo # {}
    /\ LET r == NextOf(proc[p].todo)
           rem == proc[p].session[r]
       IN \E fate \in Fates :
            /\ proc' = [proc EXCEPT
                          ![p].todo = @ \ {r},
                          ![p].session[r] = ProcessOne(rem, appointments, fate, now)]
            /\ dispatched' = [dispatched EXCEPT ![r] =
                                IF Dispatches(rem, appointments, fate)
                                THEN Append(@, DispatchResult(rem, fate))
                                ELSE @]
    /\ UNCHANGED <<now, appointments, reminders, planVars, writers, mlVars>>

\* process_scheduled_reminders, the commit after the loop.
ScanCommit(p) ==
    /\ proc[p].pc = "loop"
    /\ proc[p].todo = {}
    /\ Commit(p)
    /\ UNCHANGED <<now, appointments, dispatched, planVars, mlVars>>

\* cancel_reminders, the query and the loop that marks the loaded objects.
CancelQuery(p, appointment_id) ==
    /\ proc[p].pc = "idle"
    /\ LET selected == CancelSelection(reminders, appointment_id)
       IN proc' = [proc EXCEPT ![p] =
                     [pc |-> "commit", todo |-> {},
                      loaded |-> [r \in selected |-> reminders[r]],
                      session |-> [r \in selected |-> CancelOne(reminders[r])]]]
    /\ UNCHANGED <<schedVars, planVars, writers, mlVars>>

\* cancel_reminders, the commit.
CancelCommit(p) ==
    /\ proc[p].pc = "commit"
    /\ Commit(p)
    /\ UNCHANGED <<now, appointments, dispatched, planVars, mlVars>>

\* ---------------------------------------------------------------- MLService: values
\* Probabilities are counted in ten-thousandths: 0.1 is 1000.
LowThreshold == 1000
MediumThreshold == 2500
DefaultProbability == 1500

\* Hours _calculate_lead_time returns when a timestamp is missing.
DefaultLeadTime == 24

\* classes_ of the two LabelEncoders after fit: the vocabulary, sorted.
AppointmentTypeClasses == <<"consultation", "emergency", "follow_up", "treatment">>
WeatherConditionClasses == <<"cloudy", "rainy", "snowy", "sunny", "unknown">>

FeatureColumns ==
    <<"booking_lead_time_hours", "day_of_week", "time_of_day",
      "previous_no_shows", "appointment_frequency", "appointment_type_encoded",
      "weather_condition_encoded", "month", "is_weekend">>

\* The attributes of an Appointment object that prepare_features reads.  Times
\* are hours since Monday 1 January, 00:00; a DateTime attribute may be None.
AppointmentObject(appointment_time, created_at, appointment_type, weather_condition) ==
    [appointment_time  |-> appointment_time,
     created_at        |-> created_at,
     appointment_type  |-> appointment_type,
     weather_condition |-> weather_condition]

\* The appointments of the prediction requests.
PredictInputs ==
    {AppointmentObject(Some(48), Some(0), "consultation", "sunny"),
     AppointmentObject(Some(48), Some(0), "checkup", "foggy"),
     AppointmentObject(Some(150), Some(100), "treatment", "unknown"),
     AppointmentObject(Some(48), Some(100), "consultation", "sunny"),
     AppointmentObject(Some(150), None, "treatment", "sunny"),
     AppointmentObject(None, Some(0), "consultation", "sunny"),
     AppointmentObject(Some(48), Some(0), "consultation", "appointment_type")}

\* n_samples of create_training_data.
NSamples == 1000

\* A training dataset, by what fitting on it yields: the mean that the scaler
\* learns for the lead time, the no-show probability the forest learns for
\* lead times up to the mean and above it, and the accuracy on the held-out
\* part.  Training is seeded (random_state=42): the dataset determines the fit.
\*   ok          both classes present, numeric
\*   one_class   every label is the same
\*   no_target   no 'no_show' column, or no rows: the split raises
\*   non_numeric a feature column of strings: scaling raises
\*   bad_labels  labels that are not classes: fit raises
Dataset(kind, mean, below, above, accuracy) ==
    [kind |-> kind, mean |-> mean, below |-> below, above |-> above,
     accuracy |-> accuracy, samples |-> NSamples]

\* The datasets of the training requests; probabilities in ten-thousandths.
Datasets ==
    {Dataset("ok", 24, 0, 2500, 100),
     Dataset("ok", 48, 996, 10000, 100),
     Dataset("ok", 24, 1000, 2499, 100),
     Dataset("ok", 48, 2500, 996, 100),
     Dataset("ok", 24, 1500, 1500, 0)}
    \cup {Dataset(k, 24, 0, 0, 100) :
            k \in {"one_class", "no_target", "non_numeric", "bad_labels"}}

\* A StandardScaler or a RandomForestClassifier: unfitted, or fitted on a
\* dataset.
Unfitted == [fit_on |-> None]
FittedOn(d) == [fit_on |-> Some(d)]

\* MLService.__init__ before load_model.
FreshService ==
    [model |-> None, scaler |-> Unfitted, label_encoders |-> <<>>]

\* The file at model_path: missing, unreadable, or a dump of model_data.
NoFile == [state |-> "missing", data |-> None]
CorruptFile == [state |-> "corrupt", data |-> None]
SavedFile(model_data) == [state |-> "saved", data |-> Some(model_data)]

\* A call that returned value, and a call that let an exception escape.
Returned(value) == [raised |-> FALSE, value |-> Some(value)]
Raised == [raised |-> TRUE, value |-> None]

IdleTraining == [pc |-> "idle", dataset |-> None, outcome |-> None, saved |-> FALSE]

IdlePredicting ==
    [pc |-> "idle", appointment |-> None, features |-> None, scaled |-> None,
     probability |-> None, used_scaler |-> None, used_model |-> None,
     outcome |-> None]

\* ---------------------------------------------------------------- prepare_features
\* dict[key] = value.
Put(dict, key, value) ==
    [k \in DOMAIN dict \cup {key} |-> IF k = key THEN value ELSE dict[k]]

\* LabelEncoder.transform([value])[0]: the position of value in classes_,
\* counted from 0.
IndexIn(classes, value) ==
    (CHOOSE i \in 1..Len(classes) : classes[i] = value) - 1

IsClass(classes, value) == \E i \in 1..Len(classes) : classes[i] = value

CalculateLeadTime(appointment) ==
    IF appointment.created_at # None /\ appointment.appointment_time # None
    THEN appointment.appointment_time[1] - appointment.created_at[1]
    ELSE DefaultLeadTime

GetPreviousNoShows == 0

\* 1.0 appointments per month.
GetAppointmentFrequency == 1

\* _encode_appointment_type: the code, the encoders the call leaves, and
\* whether the call raised (a KeyError when the guard skipped the fit and the
\* encoder is not there).
EncodeAppointmentType(label_encoders, appointment_type) ==
    LET encoders == IF appointment_type \notin DOMAIN label_encoders
                    THEN Put(label_encoders, "appointment_type", AppointmentTypeClasses)
                    ELSE label_encoders
    IN IF "appointment_type" \notin DOMAIN encoders
       THEN [raised |-> TRUE, code |-> 0, label_encoders |-> encoders]
       ELSE [raised |-> FALSE,
             code |-> IF IsClass(encoders["appointment_type"], appointment_type)
                      THEN IndexIn(encoders["appointment_type"], appointment_type)
                      ELSE 0,
             label_encoders |-> encoders]

\* _encode_weather_condition, likewise.
EncodeWeatherCondition(label_encoders, weather_condition) ==
    LET encoders == IF weather_condition \notin DOMAIN label_encoders
                    THEN Put(label_encoders, "weather_condition", WeatherConditionClasses)
                    ELSE label_encoders
    IN IF "weather_condition" \notin DOMAIN encoders
       THEN [raised |-> TRUE, code |-> 0, label_encoders |-> encoders]
       ELSE [raised |-> FALSE,
             code |-> IF IsClass(encoders["weather_condition"], weather_condition)
                      THEN IndexIn(encoders["weather_condition"], weather_condition)
                      ELSE 4,
             label_encoders |-> encoders]

\* datetime.weekday() and datetime.hour of a time in hours since a Monday,
\* 00:00; the times of the model lie in January.
Weekday(time) == (time \div 24) % 7
Hour(time) == time % 24
Month(time) == 1

\* prepare_features: the feature dict, the encoders the call leaves on the
\* service, and whether it raised (appointment_time None has no weekday()).
PrepareFeatures(label_encoders, appointment) ==
    IF appointment.appointment_time = None
    THEN [raised |-> TRUE, features |-> None, label_encoders |-> label_encoders]
    ELSE LET time == appointment.appointment_time[1]
             ty == EncodeAppointmentType(label_encoders, appointment.appointment_type)
             we == EncodeWeatherCondition(ty.label_encoders,
                                          appointment.weather_condition)
         IN IF ty.raised
            THEN [raised |-> TRUE, features |-> None,
                  label_encoders |-> ty.label_encoders]
            ELSE IF we.raised
            THEN [raised |-> TRUE, features |-> None,
                  label_encoders |-> we.label_encoders]
            ELSE [raised |-> FALSE,
                  features |-> Some(
                     [booking_lead_time_hours   |-> CalculateLeadTime(appointment),
                      day_of_week               |-> Weekday(time),
                      time_of_day               |-> Hour(time),
                      previous_no_shows         |-> GetPreviousNoShows,
                      appointment_frequency     |-> GetAppointmentFrequency,
                      appointment_type_encoded  |-> ty.code,
                      weather_condition_encoded |-> we.code,
                      month                     |-> Month(time),
                      is_weekend                |-> IF Weekday(time) >= 5 THEN 1 ELSE 0]),
                  label_encoders |-> we.label_encoders]

\* ---------------------------------------------------------------- predict_no_show
\* StandardScaler.transform: None for NotFittedError; the lead time is
\* centred on the mean the scaler learned.
Transform(scaler, features) ==
    IF scaler.fit_on = None
    THEN None
    ELSE Some([features EXCEPT !.booking_lead_time_hours =
                                  @ - scaler.fit_on[1].mean])

\* model.predict_proba(x)[0][1]: None for an exception (NotFittedError, or an
\* IndexError when the forest saw one class and returns one column).
PredictProba(model, scaled) ==
    IF model.fit_on = None
    THEN None
    ELSE IF model.fit_on[1].kind = "one_class"
    THEN None
    ELSE IF scaled.booking_lead_time_hours <= 0
    THEN Some(model.fit_on[1].below)
    ELSE Some(model.fit_on[1].above)

\* round(probability, 3), on ten-thousandths.
Round3(probability) == ((probability + 5) \div 10) * 10

\* Variant of the thresholds with the boundaries in the tier below.
RiskLevel_BoundaryBelow(probability) ==
    IF probability <= LowThreshold THEN "low"
    ELSE IF probability <= MediumThreshold THEN "medium"
    ELSE "high"

RiskLevel(probability) ==
    IF probability < LowThreshold THEN "low"
    ELSE IF probability < MediumThreshold THEN "medium"
    ELSE "high"

RecommendedActions(probability) ==
    IF probability < LowThreshold
    THEN <<"Standard reminder 24 hours before">>
    ELSE IF probability < MediumThreshold
    THEN <<"Send reminder 48 hours before", "Confirm appointment day before">>
    ELSE <<"Send reminder 72 hours before", "Confirm appointment 2 days before",
           "Send final reminder day before", "Consider calling patient directly">>

\* The dict returned for a probability the model produced.
Assess(probability) ==
    [probability         |-> Round3(probability),
     risk_level          |-> RiskLevel(probability),
     recommended_actions |-> RecommendedActions(probability)]

\* Variant of the default prediction with another default rate.
NoModelAssessment_TenPercent ==
    [probability         |-> LowThreshold,
     risk_level          |-> "low",
     recommended_actions |-> <<"Send reminder 24 hours before",
                               "Confirm appointment day before">>]

\* The dict returned when self.model is None.
NoModelAssessment ==
    [probability         |-> DefaultProbability,
     risk_level          |-> "medium",
     recommended_actions |-> <<"Send reminder 24 hours before",
                               "Confirm appointment day before">>]

\* The dict returned by the except branch.
ErrorAssessment ==
    [probability         |-> DefaultProbability,
     risk_level          |-> "medium",
     recommended_actions |-> <<"Send reminder 24 hours before">>]

\* Variant of the try/except of predict_no_show that lets the exception go.
HandlePredict_NoCatch(exception, assessment) ==
    IF exception THEN Raised ELSE Returned(assessment[1])

\* The try/except around the body of predict_no_show.
HandlePredict(exception, assessment) ==
    IF exception THEN Returned(ErrorAssessment) ELSE Returned(assessment[1])

\* The call ends: by an exception in the body, or with an assessment.
FinishPredict(call, exception, assessment) ==
    [call EXCEPT !.pc = "done",
                 !.outcome = Some(HandlePredict(exception, assessment))]

\* Lines 198-207: the check of self.model and prepare_features.
StartPredict(svc, appointment) ==
    LET call == [IdlePredicting EXCEPT !.appointment = Some(appointment)]
    IN IF svc.model = None
       THEN FinishPredict(call, FALSE, Some(NoModelAssessment))
       ELSE LET prep == PrepareFeatures(svc.label_encoders, appointment)
            IN IF prep.raised
               THEN FinishPredict(call, TRUE, None)
               ELSE [call EXCEPT !.pc = "scale", !.features = prep.features]

\* The encoders lines 198-207 leave on the service.
EncodersAfterStart(svc, appointment) ==
    IF svc.model = None
    THEN svc.label_encoders
    ELSE PrepareFeatures(svc.label_encoders, appointment).label_encoders

\* Line 211: self.scaler.transform.
ScalePredict(svc, call) ==
    LET scaled == Transform(svc.scaler, call.features[1])
        used == [call EXCEPT !.used_scaler = Some(svc.scaler)]
    IN IF scaled = None
       THEN FinishPredict(used, TRUE, None)
       ELSE [used EXCEPT !.pc = "infer", !.scaled = scaled]

\* Lines 214-236: self.model.predict_proba and the risk level.
InferPredict(svc, call) ==
    LET probability == IF svc.model = None
                       THEN None
                       ELSE PredictProba(svc.model[1], call.scaled[1])
        used == [call EXCEPT !.used_model = svc.model]
    IN IF probability = None
       THEN FinishPredict(used, TRUE, None)
       ELSE FinishPredict([used EXCEPT !.probability = probability],
                          FALSE, Some(Assess(probability[1])))

\* predict_no_show run from its first line to its return on one service state.
PredictNoShowCall(svc, appointment) ==
    LET started == StartPredict(svc, appointment)
        scaled == IF started.pc = "scale" THEN ScalePredict(svc, started) ELSE started
    IN IF scaled.pc = "infer" THEN InferPredict(svc, scaled) ELSE scaled

PredictNoShow(appointment) ==
    /\ predicting' = PredictNoShowCall(ml, appointment)
    /\ ml' = [ml EXCEPT !.label_encoders = EncodersAfterStart(ml, appointment)]
    /\ UNCHANGED <<disk, training, origin, schedVars, planVars, concVars>>

\* ---------------------------------------------------------------- train_model
\* The step of train_model at which this dataset raises.
FailsAt(d) ==
    CASE d.kind = "no_target"   -> "split"
      [] d.kind = "non_numeric" -> "scale"
      [] d.kind = "bad_labels"  -> "fit"
      [] OTHER                  -> "none"

\* Line 159: self.scaler.fit_transform refits the scaler object in place;
\* fit() resets the scaler before it validates the data.
ScaleFit(svc, d) ==
    [svc EXCEPT !.scaler = IF FailsAt(d) = "scale" THEN Unfitted ELSE FittedOn(d)]

\* Line 163: self.model = RandomForestClassifier(...).
AssignModel(svc) == [svc EXCEPT !.model = Some(Unfitted)]

\* Line 172: self.model.fit.
FitModel(svc, d) ==
    IF FailsAt(d) = "fit" THEN svc ELSE [svc EXCEPT !.model = Some(FittedOn(d))]

\* The service as the body of train_model leaves it, completed or not.
TrainedService(svc, d) ==
    IF FailsAt(d) = "split" THEN svc
    ELSE IF FailsAt(d) = "scale" THEN ScaleFit(svc, d)
    ELSE FitModel(AssignModel(ScaleFit(svc, d)), d)

\* The dict returned after a completed fit.
TrainingResult(d) ==
    [success            |-> TRUE,
     error              |-> None,
     accuracy           |-> Some(d.accuracy),
     training_samples   |-> Some(d.samples),
     feature_importance |-> Some(FeatureColumns)]

\* The dict returned by the except branch.
TrainingFailure(d) ==
    [success            |-> FALSE,
     error              |-> Some(FailsAt(d)),
     accuracy           |-> None,
     training_samples   |-> None,
     feature_importance |-> None]

\* Variant of the try/except of train_model that lets the exception go.
HandleTrain_NoCatch(d) ==
    IF FailsAt(d) # "none" THEN Raised ELSE Returned(TrainingResult(d))

\* The try/except around the body of train_model.
HandleTrain(d) ==
    IF FailsAt(d) # "none"
    THEN Returned(TrainingFailure(d))
    ELSE Returned(TrainingResult(d))

\* ---------------------------------------------------------------- save_model, load_model
ModelData(svc, time) ==
    [model           |-> svc.model,
     scaler          |-> svc.scaler,
     label_encoders  |-> svc.label_encoders,
     training_date   |-> time,
     feature_columns |-> FeatureColumns]

\* What joblib.dump does to the file: it writes it, it is refused, or it
\* stops part-way.
SaveOutcomes == {"written", "refused", "truncated"}

SaveModel(svc, file, time, save) ==
    CASE save = "written"   -> SavedFile(ModelData(svc, time))
      [] save = "truncated" -> CorruptFile
      [] OTHER              -> file

\* Variant of load_model that does not restore the scaler.
LoadModel_KeepsScaler(svc, file) ==
    CASE file.state = "missing" -> svc
      [] file.state = "corrupt" -> [svc EXCEPT !.model = None]
      [] OTHER -> [svc EXCEPT !.model = file.data[1].model,
                              !.label_encoders = file.data[1].label_encoders]

LoadModel(svc, file) ==
    CASE file.state = "missing" -> svc
      [] file.state = "corrupt" -> [svc EXCEPT !.model = None]
      [] OTHER -> [model          |-> file.data[1].model,
                   scaler         |-> file.data[1].scaler,
                   label_encoders |-> file.data[1].label_encoders]

\* MLService(): a new instance, which loads the file.
NewService(file) == LoadModel(FreshService, file)

\* train_model run from its first line to its return.
TrainModel(d, save) ==
    /\ training.pc \in {"idle", "done"}
    /\ ml' = TrainedService(ml, d)
    /\ disk' = IF FailsAt(d) = "none"
               THEN SaveModel(TrainedService(ml, d), disk, now, save)
               ELSE disk
    /\ training' = [pc      |-> "done",
                    dataset |-> Some(d),
                    outcome |-> Some(HandleTrain(d)),
                    saved   |-> FailsAt(d) = "none" /\ save = "written"]
    /\ origin' = IF FailsAt(d) = "split" THEN origin ELSE "train"
    /\ UNCHANGED <<predicting, schedVars, planVars, concVars>>

\* The process starts again: the service is constructed anew.
Restart ==
    /\ training.pc \in {"idle", "done"}
    /\ ml' = NewService(disk)
    /\ origin' = "load"
    /\ predicting' = IdlePredicting
    /\ UNCHANGED <<disk, training, schedVars, planVars, concVars>>

\* ---------------------------------------------------------------- train_model beside predict_no_show
\* train_model, lines 145-156: the dataset is taken and split.
TrainSplit(d) ==
    /\ training.pc = "idle"
    /\ training' = IF FailsAt(d) = "split"
                   THEN [pc |-> "done", dataset |-> Some(d),
                         outcome |-> Some(HandleTrain(d)), saved |-> FALSE]
                   ELSE [IdleTraining EXCEPT !.pc = "scale", !.dataset = Some(d)]
    /\ UNCHANGED <<ml, disk, predicting, origin, schedVars, planVars, concVars>>

\* train_model, lines 159-160.
TrainScale ==
    /\ training.pc = "scale"
    /\ LET d == training.dataset[1]
       IN /\ ml' = ScaleFit(ml, d)
          /\ training' = IF FailsAt(d) = "scale"
                         THEN [training EXCEPT !.pc = "done",
                                               !.outcome = Some(HandleTrain(d))]
                         ELSE [training EXCEPT !.pc = "assign"]
    /\ origin' = "train"
    /\ UNCHANGED <<disk, predicting, schedVars, planVars, concVars>>

\* train_model, line 163.
TrainAssign ==
    /\ training.pc = "assign"
    /\ ml' = AssignModel(ml)
    /\ training' = [training EXCEPT !.pc = "fit"]
    /\ UNCHANGED <<disk, predicting, origin, schedVars, planVars, concVars>>

\* train_model, line 172.
TrainFit ==
    /\ training.pc = "fit"
    /\ LET d == training.dataset[1]
       IN /\ ml' = FitModel(ml, d)
          /\ training' = IF FailsAt(d) = "fit"
                         THEN [training EXCEPT !.pc = "done",
                                               !.outcome = Some(HandleTrain(d))]
                         ELSE [training EXCEPT !.pc = "save"]
    /\ UNCHANGED <<disk, predicting, origin, schedVars, planVars, concVars>>

\* train_model, lines 175-189: evaluation, save_model and the return.
TrainSave(save) ==
    /\ training.pc = "save"
    /\ disk' = SaveModel(ml, disk, now, save)
    /\ training' = [training EXCEPT !.pc = "done",
                                    !.outcome = Some(HandleTrain(training.dataset[1])),
                                    !.saved = (save = "written")]
    /\ UNCHANGED <<ml, predicting, origin, schedVars, planVars, concVars>>

\* predict_no_show, lines 198-207.
PredictBegin(appointment) ==
    /\ predicting.pc \in {"idle", "done"}
    /\ predicting' = StartPredict(ml, appointment)
    /\ ml' = [ml EXCEPT !.label_encoders = EncodersAfterStart(ml, appointment)]
    /\ UNCHANGED <<disk, training, origin, schedVars, planVars, concVars>>

\* predict_no_show, line 211.
PredictScale ==
    /\ predicting.pc = "scale"
    /\ predicting' = ScalePredict(ml, predicting)
    /\ UNCHANGED <<ml, disk, training, origin, schedVars, planVars, concVars>>

\* predict_no_show, lines 214-236.
PredictInfer ==
    /\ predicting.pc = "infer"
    /\ predicting' = InferPredict(ml, predicting)
    /\ UNCHANGED <<ml, disk, training, origin, schedVars, planVars, concVars>>

\* ---------------------------------------------------------------- create_appointment
\* The primary key the database gives the next appointments row.
NewAppointmentId(table) ==
    IF DOMAIN table = {}
    THEN 1
    ELSE (CHOOSE a \in DOMAIN table : \A b \in DOMAIN table : b <= a) + 1

\* Variant of the planning call whose exceptions reach the handler.
PlanReminders_NoCatch(appointment) ==
    IF MessageRaises(appointment)
    THEN [raised |-> TRUE, reminders |-> <<>>]
    ELSE [raised |-> FALSE, reminders |-> ScheduleRemindersList(appointment)]

\* schedule_reminders as create_appointment sees the call: the try/except of
\* _create_reminder and its own (lines 38, 80-82) turn every exception into a
\* shorter or empty list, and nothing is raised to the caller.
PlanReminders(appointment) ==
    [raised |-> FALSE, reminders |-> ScheduleRemindersList(appointment)]

\* What can go wrong with a request before the appointment is stored: a
\* required field is absent, appointment_time is not an ISO string, or the
\* commit fails.
BookingFaults == {"none", "missing_field", "bad_time", "commit"}

\* jsonify(...), status: the body is the appointment's to_dict() or an error.
Response(status, body) == Some([status |-> status, body |-> body])

\* POST /api/appointments.  A request without a required field is answered
\* 400; an exception anywhere in the handler is answered 500.  Otherwise the
\* appointment is added and committed, then schedule_reminders builds the
\* Reminder objects and the answer is 201.  The objects are returned to the
\* handler, which drops them: none is added to the session, and the
\* reminders table is left as it is.
CreateAppointment(appointment_time, appointment_type, patient, clinic, fault) ==
    /\ ~planned.done
    /\ IF fault = "missing_field"
       THEN /\ response' = Response(400, None)
            /\ UNCHANGED <<appointments, booking, planned>>
       ELSE IF fault \in {"bad_time", "commit"}
       THEN /\ response' = Response(500, None)
            /\ UNCHANGED <<appointments, booking, planned>>
       ELSE LET row == Appointment(NewAppointmentId(appointments), appointment_time,
                                   appointment_type, patient, clinic)
                plan == PlanReminders(row)
            IN /\ appointments' = Put(appointments, row.id, row)
               /\ booking' = row
               /\ planned' = [done |-> TRUE, reminders |-> plan.reminders]
               /\ response' = IF plan.raised
                               THEN Response(500, None)
                               ELSE Response(201, Some(row))
    /\ UNCHANGED <<now, reminders, dispatched, concVars, mlVars>>

\* ---------------------------------------------------------------- update_appointment
\* PUT /api/appointments/<id>: the fields present in the request are
\* assigned and committed; an unknown id is answered 404.  The reminders of
\* the appointment are not read or written.
UpdateAppointment(appointment_id, appointment_time, status) ==
    /\ appointments' =
          IF appointment_id \notin DOMAIN appointments
          THEN appointments
          ELSE [appointments EXCEPT ![appointment_id] =
                   [@ EXCEPT !.appointment_time =
                                 IF appointment_time = None THEN @
                                 ELSE appointment_time[1],
                             !.status = IF status = None THEN @ ELSE status[1]]]
    /\ UNCHANGED <<now, reminders, dispatched, planVars, concVars, mlVars>>

\* ---------------------------------------------------------------- delete_patient_data
\* The patient's future appointments that are still 'scheduled' are marked
\* 'cancelled' (lines 284-293); without the patient's consent nothing is
\* changed.  The reminders of those appointments are not read or written.
DeletePatientData(patient, consent_given) ==
    /\ appointments' =
          IF ~consent_given
          THEN appointments
          ELSE [a \in DOMAIN appointments |->
                  IF /\ appointments[a].patient = Some(patient)
                     /\ appointments[a].appointment_time > now
                     /\ appointments[a].status = "scheduled"
                  THEN [appointments[a] EXCEPT !.status = "cancelled"]
                  ELSE appointments[a]]
    /\ UNCHANGED <<now, reminders, dispatched, planVars, concVars, mlVars>>

\* ---------------------------------------------------------------- clock
Tick ==
    /\ now < MaxTime
    /\ now' = now + 1
    /\ UNCHANGED <<appointments, reminders, dispatched, planVars, concVars, mlVars>>

\* ---------------------------------------------------------------- specification
\* The message stored on row r of the table.
StoredMessage(r) ==
    GenerateMessageContent(AppointmentRow(1), ReminderTypeOf(r), "standard_reminder")

\* The ML service at rest: constructed with no model file.
InitML ==
    /\ ml = FreshService
    /\ disk = NoFile
    /\ training = IdleTraining
    /\ predicting = IdlePredicting
    /\ origin = "load"

InitTables ==
    /\ \E S \in SUBSET AppointmentIds :
         appointments = [a \in S |-> AppointmentRow(a)]
    /\ \E appt \in [ReminderIds -> AppointmentIds], at \in [ReminderIds -> Times] :
         reminders = [r \in ReminderIds |->
                        NewReminder(appt[r], ReminderTypeOf(r), at[r],
                                    StoredMessage(r))]
    /\ dispatched = [r \in ReminderIds |-> <<>>]

Init ==
    /\ now = 0
    /\ InitTables
    /\ booking = AppointmentRow(1)
    /\ planned = NotPlanned
    /\ response = None
    /\ proc = [p \in Requests |-> IdleRequest]
    /\ writers = [r \in ReminderIds |-> {}]
    /\ InitML

Next ==
    \/ Tick
    \/ ProcessScheduledReminders
    \/ \E a \in AppointmentIds : CancelReminders(a)

Spec == Init /\ [][Next]_vars

\* schedule_reminders on one appointment: any id, time and type, with or
\* without the patient and clinic rows it references.
AppointmentTypes == {"consultation", "follow_up"}

InitPlan ==
    /\ now = 0
    /\ appointments = <<>>
    /\ reminders = [r \in ReminderIds |->
                      NewReminder(1, ReminderTypeOf(r), 0, StoredMessage(r))]
    /\ dispatched = [r \in ReminderIds |-> <<>>]
    /\ \E id \in AppointmentIds, at \in AppointmentTimes, ty \in AppointmentTypes,
          pa \in {None, Some("John Doe")}, cl \in {None, Some("Test Clinic")} :
         booking = Appointment(id, at, ty, pa, cl)
    /\ planned = NotPlanned
    /\ response = None
    /\ proc = [p \in Requests |-> IdleRequest]
    /\ writers = [r \in ReminderIds |-> {}]
    /\ InitML

NextPlan == ScheduleReminders

SpecPlan == InitPlan /\ [][NextPlan]_vars

\* The overlap is short: the clock stands still while the requests run.
InitConc == Init

NextConc ==
    \/ \E p \in Scanners : ScanQuery(p)
    \/ \E p \in Scanners : ScanIterate(p)
    \/ \E p \in Scanners : ScanCommit(p)
    \/ \E p \in Cancellers, a \in AppointmentIds : CancelQuery(p, a)
    \/ \E p \in Cancellers : CancelCommit(p)

SpecConc == InitConc /\ [][NextConc]_vars

\* The tables and requests at rest, for the specifications of the ML service.
QuietScheduler ==
    /\ now = 0
    /\ appointments = <<>>
    /\ reminders = [r \in ReminderIds |->
                      NewReminder(1, ReminderTypeOf(r), 0, StoredMessage(r))]
    /\ dispatched = [r \in ReminderIds |-> <<>>]
    /\ booking = AppointmentRow(1)
    /\ planned = NotPlanned
    /\ response = None
    /\ proc = [p \in Requests |-> IdleRequest]
    /\ writers = [r \in ReminderIds |-> {}]

\* A booking request arriving at a clinic with one appointment on record and
\* its reminders stored: its appointment is early enough for all its
\* reminders, or only the first, to fall due while the clock runs.
BookingTimes == {MaxTime + 1, MaxTime + 72}

InitBook ==
    /\ now = 0
    /\ appointments = [a \in {1} |-> AppointmentRow(a)]
    /\ reminders = [r \in ReminderIds |->
                      NewReminder(1, ReminderTypeOf(r), 0, StoredMessage(r))]
    /\ dispatched = [r \in ReminderIds |-> <<>>]
    /\ booking = AppointmentRow(1)
    /\ planned = NotPlanned
    /\ response = None
    /\ proc = [p \in Requests |-> IdleRequest]
    /\ writers = [r \in ReminderIds |-> {}]
    /\ InitML

NextBook ==
    \/ \E at \in BookingTimes, ty \in AppointmentTypes,
          pa \in {None, Some("John Doe")}, cl \in {None, Some("Test Clinic")} :
         \E fault \in BookingFaults : CreateAppointment(at, ty, pa, cl, fault)
    \/ Tick
    \/ ProcessScheduledReminders
    \/ \E a \in AppointmentIds : CancelReminders(a)

SpecBook == InitBook /\ [][NextBook]_vars

\* The ML service, one call at a time.  The process starts with no model
\* file, an unreadable one, or one a training run of an earlier process saved.
InitialFiles ==
    {NoFile, CorruptFile,
     SavedFile(ModelData(TrainedService(FreshService, Dataset("ok", 24, 1000, 2499, 100)), 0))}

InitService ==
    /\ QuietScheduler
    /\ disk \in InitialFiles
    /\ ml = NewService(disk)
    /\ training = IdleTraining
    /\ predicting = IdlePredicting
    /\ origin = "load"

NextService ==
    \/ \E a \in PredictInputs : PredictNoShow(a)
    \/ \E d \in Datasets, save \in SaveOutcomes : TrainModel(d, save)
    \/ Restart

SpecService == InitService /\ [][NextService]_vars

\* One train_model call beside predict_no_show calls, interleaved line by
\* line, on a service that loaded a saved model.
InitTrain ==
    /\ QuietScheduler
    /\ disk = SavedFile(ModelData(TrainedService(FreshService,
                                                 Dataset("ok", 24, 1000, 2499, 100)), 0))
    /\ ml = NewService(disk)
    /\ training = IdleTraining
    /\ predicting = IdlePredicting
    /\ origin = "load"

NextTrain ==
    \/ \E d \in Datasets : TrainSplit(d)
    \/ TrainScale
    \/ TrainAssign
    \/ TrainFit
    \/ \E save \in SaveOutcomes : TrainSave(save)
    \/ \E a \in PredictInputs : PredictBegin(a)
    \/ PredictScale
    \/ PredictInfer

SpecTrain == InitTrain /\ [][NextTrain]_vars


\* ---------------------------------------------------------------- properties
\* The core operations on the appointments a clinic has on record: a service
\* that loaded a saved model predicts for stored appointments, reminders are
\* planned for one of them, and the stored reminders are processed and
\* cancelled.
WeatherConditions == {"sunny", "unknown"}

\* The Appointment object of a stored row as prepare_features reads it:
\* created_at is the column default, weather_condition a nullable string.
StoredObject(row, created_at, weather_condition) ==
    AppointmentObject(Some(row.appointment_time), Some(created_at),
                      row.appointment_type, weather_condition)

InitCore ==
    /\ now = 0
    /\ appointments = [a \in AppointmentIds |-> AppointmentRow(a)]
    /\ reminders = [r \in ReminderIds |->
                      NewReminder((r % 2) + 1, ReminderTypeOf(r), 0, StoredMessage(r))]
    /\ dispatched = [r \in ReminderIds |-> <<>>]
    /\ booking = AppointmentRow(1)
    /\ planned = NotPlanned
    /\ response = None
    /\ proc = [p \in Requests |-> IdleRequest]
    /\ writers = [r \in ReminderIds |-> {}]
    /\ disk = SavedFile(ModelData(TrainedService(FreshService,
                                                 Dataset("ok", 24, 1000, 2499, 100)), 0))
    /\ ml = NewService(disk)
    /\ training = IdleTraining
    /\ predicting = IdlePredicting
    /\ origin = "load"

NextCore ==
    \/ \E a \in DOMAIN appointments, w \in WeatherConditions :
         PredictNoShow(StoredObject(appointments[a], 0, w))
    \/ ScheduleReminders
    \/ Tick
    \/ ProcessScheduledReminders
    \/ \E a \in AppointmentIds : CancelReminders(a)

SpecCore == InitCore /\ [][NextCore]_vars

\* ---------------------------------------------------------------- failing runs
\* How a process_scheduled_reminders run ends: its commit succeeds, its commit
\* raises (line 310), or the query for the due reminders raises (line 275).
\* In the last two the outer except returns {'success': False}.
RunOutcomes == {"committed", "commit_fails", "query_fails"}

\* The most send_reminder calls the runs of SpecFault make for one reminder.
MaxDispatches == 2

\* One run of process_scheduled_reminders with its outcome.  The dispatches
\* of the loop are made before the commit: when the commit raises, the
\* assignments of the loop stay in the session of the run and are lost with
\* it, and the rows of the table are as they were.
ProcessScheduledRemindersRun(fates, outcome) ==
    LET due == DueReminders(reminders, now)
    IN /\ \A r \in due : Len(dispatched[r]) < MaxDispatches
       /\ reminders' = IF outcome = "committed"
                       THEN ProcessSession(reminders, appointments, now, fates)
                       ELSE reminders
       /\ dispatched' = [r \in ReminderIds |->
             IF /\ outcome # "query_fails"
                /\ r \in due
                /\ Dispatches(reminders[r], appointments, fates[r])
             THEN Append(dispatched[r], DispatchResult(reminders[r], fates[r]))
             ELSE dispatched[r]]
       /\ UNCHANGED <<now, appointments, planVars, concVars, mlVars>>

\* The scheduler with runs that may fail as a whole.
InitFault == Init

NextFault ==
    \/ Tick
    \/ \E fates \in [DueReminders(reminders, now) -> Fates], outcome \in RunOutcomes :
         ProcessScheduledRemindersRun(fates, outcome)
    \/ \E a \in AppointmentIds : CancelReminders(a)

SpecFault == InitFault /\ [][NextFault]_vars

\* The scheduler over the reminders schedule_reminders built for one
\* appointment, stored as built; the appointment is near enough for all of
\* them, or only the first, to fall due while the clock runs.
PlannedAppointment(appointment_time, appointment_type) ==
    Appointment(1, appointment_time, appointment_type, Some("John Doe"),
                Some("Test Clinic"))

PlannedRow(appointment, r) ==
    LET list == ScheduleRemindersList(appointment)
    IN list[((r - 1) % Len(list)) + 1]

InitSend ==
    /\ now = 0
    /\ \E at \in BookingTimes, ty \in AppointmentTypes :
         /\ appointments = [a \in {1} |-> PlannedAppointment(at, ty)]
         /\ reminders = [r \in ReminderIds |->
                           PlannedRow(PlannedAppointment(at, ty), r)]
         /\ booking = PlannedAppointment(at, ty)
    /\ dispatched = [r \in ReminderIds |-> <<>>]
    /\ planned = NotPlanned
    /\ response = None
    /\ proc = [p \in Requests |-> IdleRequest]
    /\ writers = [r \in ReminderIds |-> {}]
    /\ InitML

NextSend ==
    \/ Tick
    \/ ProcessScheduledReminders
    \/ \E a \in AppointmentIds : CancelReminders(a)

SpecSend == InitSend /\ [][NextSend]_vars

\* The scheduler over the stored reminders of one appointment while the
\* appointment is moved or cancelled, by update_appointment or by the erasure
\* of its patient's data.
UpdateTimes == {None, Some(MaxAppointmentTime)}
UpdateStatuses == {None, Some("cancelled")}

InitUpdate == InitSend

NextUpdate ==
    \/ \E a \in AppointmentIds, at \in UpdateTimes, st \in UpdateStatuses :
         UpdateAppointment(a, at, st)
    \/ \E consent_given \in BOOLEAN : DeletePatientData("John Doe", consent_given)
    \/ Tick
    \/ ProcessScheduledReminders
    \/ \E a \in AppointmentIds : CancelReminders(a)

SpecUpdate == InitUpdate /\ [][NextUpdate]_vars

TerminalStatuses == {"sent", "failed", "cancelled"}

Exists(rem) == rem.appointment_id \in DOMAIN appointments

\* The result of the latest send_reminder call made for reminder r.
LastResult(log) == log[Len(log)]

\* C1: a reminder's status changes only from 'scheduled', and only to 'sent',
\* 'failed' or 'cancelled'; a reminder in one of these three never changes
\* status again, whatever calls follow.
C1_StatusOnlyLeavesScheduled ==
    [][\A r \in ReminderIds :
          reminders'[r].status # reminders[r].status
            => /\ reminders[r].status = "scheduled"
               /\ reminders'[r].status \in TerminalStatuses]_vars

\* All three terminal statuses have been entered.
C1_Witness ==
    \A st \in TerminalStatuses : \E r \in ReminderIds : reminders[r].status = st

\* C2: when two process_scheduled_reminders scans overlap, at most one of
\* them writes the status of any reminder, and send_reminder is called at
\* most once for it.
C2_OverlappingScansDispatchOnce ==
    \A r \in ReminderIds :
        /\ Cardinality(writers[r] \cap Scanners) <= 1
        /\ Len(dispatched[r]) <= 1

\* C3: when cancel_reminders overlaps a scan that selected one of the
\* appointment's scheduled reminders, the reminder's status is written by
\* only one of the two, and a reminder recorded as 'cancelled' has not been
\* dispatched.
C3_CancelExcludesScan ==
    \A r \in ReminderIds :
        /\ writers[r] \cap Scanners = {} \/ writers[r] \cap Cancellers = {}
        /\ reminders[r].status = "cancelled" => dispatched[r] = <<>>

\* C4: a run of process_scheduled_reminders leaves every reminder that is
\* already 'sent', 'failed' or 'cancelled' as it is and makes no send_reminder
\* call for it; no reminder is ever dispatched twice.
C4_SecondRunSkipsTerminal ==
    [][ProcessScheduledReminders
         => \A r \in ReminderIds :
               /\ reminders[r].status \in TerminalStatuses
                    => /\ reminders'[r] = reminders[r]
                       /\ dispatched'[r] = dispatched[r]
               /\ Len(dispatched'[r]) <= 1]_vars

\* A run at time 0 left reminder f failed after one dispatch, and a later run
\* at time 1 sent reminder s: f was terminal during that later run.
C4_Witness ==
    \E f, s \in ReminderIds :
        /\ reminders[f].status = "failed"
        /\ reminders[f].scheduled_time = 0
        /\ Len(dispatched[f]) = 1
        /\ reminders[s].status = "sent"
        /\ reminders[s].scheduled_time = 0
        /\ reminders[s].sent_time = Some(0)
        /\ \E t \in ReminderIds :
              /\ reminders[t].status = "sent"
              /\ reminders[t].sent_time = Some(1)

\* C5: cancel_reminders(a) sets to 'cancelled' exactly the reminders of
\* appointment a that are 'scheduled', leaves every other reminder as it is,
\* and returns as cancelled_count the number of reminders it changed.
C5_CancelFrame ==
    [][\A a \in AppointmentIds :
          CancelReminders(a)
            => /\ \A r \in ReminderIds :
                     reminders'[r] =
                       IF /\ reminders[r].appointment_id = a
                          /\ reminders[r].status = "scheduled"
                       THEN [reminders[r] EXCEPT !.status = "cancelled"]
                       ELSE reminders[r]
               /\ CancelResult(reminders, a).cancelled_count =
                     Cardinality({r \in ReminderIds : reminders'[r] # reminders[r]})]_vars

\* An appointment with a cancelled and a sent reminder, beside a reminder of
\* another appointment that is still scheduled.
C5_Witness ==
    \E c, s, o \in ReminderIds :
        /\ reminders[c].status = "cancelled"
        /\ reminders[s].status = "sent"
        /\ reminders[s].appointment_id = reminders[c].appointment_id
        /\ reminders[o].appointment_id # reminders[c].appointment_id
        /\ reminders[o].status = "scheduled"
        /\ reminders[o].scheduled_time <= now

\* C6: a reminder is 'sent' exactly when its appointment exists and
\* send_reminder reported success for it, and a sent reminder carries the
\* time of sending and delivery_status 'delivered'.
C6_SentIffDispatchSucceeded ==
    \A r \in ReminderIds :
        /\ reminders[r].status = "sent"
             <=> /\ Exists(reminders[r])
                 /\ dispatched[r] # <<>>
                 /\ LastResult(dispatched[r]).success
        /\ reminders[r].status = "sent"
             => /\ \E t \in reminders[r].scheduled_time..now :
                      reminders[r].sent_time = Some(t)
                /\ reminders[r].delivery_status = Some("delivered")
        /\ reminders[r].status # "sent"
             => /\ reminders[r].sent_time = None
                /\ reminders[r].delivery_status = None

\* One reminder sent and one failed by the transport, both of existing
\* appointments.
C6_Witness ==
    \E s, f \in ReminderIds :
        /\ reminders[s].status = "sent" /\ Exists(reminders[s])
        /\ reminders[f].status = "failed" /\ Exists(reminders[f])
        /\ dispatched[f] # <<>>
        /\ ~LastResult(dispatched[f]).success

\* C7: a run of process_scheduled_reminders dispatches and changes only
\* reminders that are 'scheduled' with scheduled_time <= now when it scans; a
\* reminder whose scheduled_time is still ahead is neither dispatched nor
\* changed.
C7_OnlyDueAreProcessed ==
    [][ProcessScheduledReminders
         => \A r \in ReminderIds :
               ~(reminders[r].status = "scheduled"
                   /\ reminders[r].scheduled_time <= now)
                 => /\ reminders'[r] = reminders[r]
                    /\ dispatched'[r] = dispatched[r]]_vars

\* A run at time 0 sent one reminder and left alone one scheduled for time 1.
C7_Witness ==
    /\ now = 0
    /\ \E s, f \in ReminderIds :
          /\ reminders[s].status = "sent"
          /\ reminders[f].scheduled_time > now
          /\ reminders[f].status = "scheduled"
          /\ dispatched[f] = <<>>

\* C8: when send_reminder reports failure with error x for a due reminder,
\* the run leaves it 'failed' with error_message x; the failed count of
\* get_reminder_stats grows by exactly one for each due reminder of the run
\* that was not sent.
C8_DispatchFailureRecorded ==
    [][ProcessScheduledReminders
         => LET due == {r \in ReminderIds :
                          /\ reminders[r].status = "scheduled"
                          /\ reminders[r].scheduled_time <= now}
                called == {r \in due : dispatched'[r] # dispatched[r]}
                refused == {r \in called : ~LastResult(dispatched'[r]).success}
                delivered == {r \in called : LastResult(dispatched'[r]).success}
            IN /\ \A r \in refused :
                     /\ reminders'[r].status = "failed"
                     /\ reminders'[r].error_message = LastResult(dispatched'[r]).error
               /\ GetReminderStats(reminders').failed_reminders =
                     GetReminderStats(reminders).failed_reminders
                       + Cardinality(due \ delivered)]_vars

\* Exactly one reminder has failed, with the transport's error "x".
C8_Witness ==
    /\ GetReminderStats(reminders).failed_reminders = 1
    /\ \E r \in ReminderIds :
          /\ reminders[r].status = "failed"
          /\ reminders[r].error_message = Some("x")
          /\ dispatched[r] = <<[success |-> FALSE, error |-> Some("x")]>>

\* C9: a due reminder whose appointment does not exist is left 'failed' with
\* an error_message by the run, and send_reminder is not called for it.
C9_MissingAppointmentFails ==
    [][ProcessScheduledReminders
         => \A r \in ReminderIds :
               (/\ reminders[r].status = "scheduled"
                /\ reminders[r].scheduled_time <= now
                /\ ~Exists(reminders[r]))
                 => /\ reminders'[r].status = "failed"
                    /\ reminders'[r].error_message # None
                    /\ dispatched'[r] = dispatched[r]]_vars

\* A reminder of a missing appointment failed with 'Appointment not found' and
\* was never dispatched.
C9_Witness ==
    \E r \in ReminderIds :
        /\ ~Exists(reminders[r])
        /\ reminders[r].status = "failed"
        /\ reminders[r].error_message = Some("Appointment not found")
        /\ dispatched[r] = <<>>

\* The reference cadence: hours before the appointment, and channel.
Cadence ==
    <<[hours |-> 72, channel |-> "email"],
      [hours |-> 48, channel |-> "email"],
      [hours |-> 24, channel |-> "sms"],
      [hours |-> 2, channel |-> "sms"]>>

IsCadenceOf(list, appointment) ==
    /\ Len(list) = Len(Cadence)
    /\ \A i \in 1..Len(Cadence) :
          /\ list[i].scheduled_time = appointment.appointment_time - Cadence[i].hours
          /\ list[i].reminder_type = Cadence[i].channel
          /\ list[i].appointment_id = appointment.id
          /\ list[i].status = "scheduled"

C11_PlannedRemindersAreProcessed ==
    [][ProcessScheduledReminders
         => \A i \in 1..Len(planned.reminders) :
               planned.reminders[i].scheduled_time <= now
                 => \E r \in DOMAIN reminders' :
                       /\ reminders'[r].appointment_id = planned.reminders[i].appointment_id
                       /\ reminders'[r].reminder_type = planned.reminders[i].reminder_type
                       /\ reminders'[r].scheduled_time = planned.reminders[i].scheduled_time
                       /\ reminders'[r].status \in TerminalStatuses]_vars

\* The dict the last predict_no_show call returned.
LastAssessment == predicting.outcome[1].value[1]

C13_NoModelFallback ==
    (ml.model = None /\ predicting.pc = "done")
        => /\ ~predicting.outcome[1].raised
           /\ LastAssessment.probability = 1500
           /\ LastAssessment.risk_level = "medium"
           /\ RiskLevel(LastAssessment.probability) = LastAssessment.risk_level

\* A service whose model file was unreadable has answered a prediction.
C13_Witness ==
    /\ ml.model = None
    /\ disk.state = "corrupt"
    /\ predicting.pc = "done"
    /\ LastAssessment.probability = 1500

\* C14: predict_no_show never raises, whatever the state of the service and
\* the appointment: it returns a probability in [0, 1] and a risk level of
\* low, medium or high, and a call in which feature preparation, scaling or
\* inference raised returns 0.15 and 'medium'.
C14_PredictNeverRaises ==
    predicting.pc = "done" =>
        /\ ~predicting.outcome[1].raised
        /\ LastAssessment.probability \in 0..10000
        /\ LastAssessment.risk_level \in {"low", "medium", "high"}
        /\ predicting.probability = None
             => /\ LastAssessment.probability = 1500
                /\ LastAssessment.risk_level = "medium"

\* Inference raised on a classifier that is not fitted, after scaling
\* succeeded, and the call returned.
C14_Witness ==
    /\ predicting.pc = "done"
    /\ predicting.scaled # None
    /\ predicting.used_model = Some(Unfitted)
    /\ predicting.probability = None
    /\ ~predicting.outcome[1].raised

\* C15: the recommended_actions of every returned assessment is the list of
\* its risk level: one action for low, the 48-hour reminder and the day-before
\* confirmation for medium, four actions for high; the two default
\* assessments carry the list of medium.
C15_ActionsFollowTier ==
    predicting.pc = "done" =>
        LastAssessment.recommended_actions =
            CASE LastAssessment.risk_level = "low" ->
                   <<"Standard reminder 24 hours before">>
              [] LastAssessment.risk_level = "medium" ->
                   <<"Send reminder 48 hours before", "Confirm appointment day before">>
              [] OTHER ->
                   <<"Send reminder 72 hours before", "Confirm appointment 2 days before",
                     "Send final reminder day before", "Consider calling patient directly">>

\* C16: a predict_no_show call that overlaps a train_model run scales with
\* the scaler and infers with the classifier of one training (both the ones
\* loaded before the run, or both the ones the run produces), and the
\* classifier it uses is fitted.  The run here is one that completes.
C16_PredictionUsesOneArtifact ==
    (/\ predicting.used_scaler # None
     /\ predicting.used_model # None
     /\ training.dataset # None => FailsAt(training.dataset[1]) = "none")
        => /\ predicting.used_model[1].fit_on # None
           /\ predicting.used_model[1].fit_on = predicting.used_scaler[1].fit_on

\* C17: a train_model run that fails, at the split, the scaling or the fit,
\* leaves the service with the classifier and the scaler it had before the
\* run.
C17_FailedTrainingKeepsArtifact ==
    [][\A d \in Datasets, save \in SaveOutcomes :
          (TrainModel(d, save) /\ FailsAt(d) # "none")
            => /\ ml'.model = ml.model
               /\ ml'.scaler = ml.scaler]_vars

\* The dict the last train_model call returned.
LastTraining == training.outcome[1].value[1]

\* C18: train_model never raises: on a dataset it cannot split, scale or fit
\* it returns success False with an error; on a completed fit it returns
\* success True with accuracy, the number of training samples and the feature
\* importances, whatever the accuracy.
C18_TrainNeverRaises ==
    training.pc = "done" =>
        /\ ~training.outcome[1].raised
        /\ training.dataset[1].kind \in {"no_target", "non_numeric", "bad_labels"}
             => /\ LastTraining.success = FALSE
                /\ LastTraining.error # None
        /\ training.dataset[1].kind \in {"ok", "one_class"}
             => /\ LastTraining.success = TRUE
                /\ LastTraining.accuracy # None
                /\ LastTraining.training_samples = Some(1000)
                /\ LastTraining.feature_importance # None

\* A completed fit with accuracy 0 was reported as a success.
C18_Witness ==
    /\ training.pc = "done"
    /\ LastTraining.success = TRUE
    /\ LastTraining.accuracy = Some(0)

C20_UnknownCategoryCode ==
    predicting.features # None =>
        LET a == predicting.appointment[1]
            f == predicting.features[1]
        IN /\ ~IsClass(AppointmentTypeClasses, a.appointment_type)
                => \A i \in 1..Len(AppointmentTypeClasses) :
                      f.appointment_type_encoded # i - 1
           /\ a.weather_condition \notin {"cloudy", "rainy", "snowy", "sunny"}
                => /\ f.weather_condition_encoded = 4
                   /\ f.weather_condition_encoded
                        # IndexIn(WeatherConditionClasses, "sunny")

\* C21: the booking_lead_time_hours feature is never negative: it is
\* (appointment_time - created_at) in hours clamped below at 0, also when the
\* appointment is scheduled earlier than it was created, and 24 when a
\* timestamp is missing.
C21_LeadTimeNeverNegative ==
    predicting.features # None =>
        LET a == predicting.appointment[1]
            lead == predicting.features[1].booking_lead_time_hours
        IN /\ lead >= 0
           /\ (a.appointment_time # None /\ a.created_at # None)
                => LET delta == a.appointment_time[1] - a.created_at[1]
                   IN lead = IF delta < 0 THEN 0 ELSE delta
           /\ (a.appointment_time = None \/ a.created_at = None)
                => lead = 24

\* C22: prepare_features is deterministic: the same appointment yields the
\* same feature vector whatever the earlier calls left on the service; the
\* call made on the encoders the service holds now ends as the call made on
\* the encoders of a freshly constructed service.
C22_FeaturesIgnoreEncoderState ==
    \A a \in PredictInputs :
        LET here == PrepareFeatures(ml.label_encoders, a)
            fresh == PrepareFeatures(FreshService.label_encoders, a)
        IN /\ here.raised = fresh.raised
           /\ here.features = fresh.features

\* C23: prepare_features, predict_no_show, schedule_reminders,
\* process_scheduled_reminders and cancel_reminders never modify a field of an
\* Appointment: every step of the core operations leaves each stored
\* appointment, its scheduled time included, and the appointment being
\* planned for as they were.
C23_CoreOperationsLeaveAppointments ==
    [][/\ appointments' = appointments
       /\ booking' = booking]_vars

\* Every core operation has acted: features were prepared and a prediction
\* made, reminders planned, one reminder sent and one cancelled.
C23_Witness ==
    /\ predicting.pc = "done"
    /\ predicting.features # None
    /\ planned.done
    /\ \E r \in ReminderIds : reminders[r].status = "sent"
    /\ \E r \in ReminderIds : reminders[r].status = "cancelled"
    /\ \A a \in AppointmentIds : appointments[a] = AppointmentRow(a)

\* C24: a failure while planning reminders never fails the booking: once
\* schedule_reminders has been called for a new appointment, the appointment
\* is stored and the request is answered 201 with the appointment, whether
\* or not any reminder could be built.
C24_PlanningNeverFailsBooking ==
    planned.done =>
        /\ booking.id \in DOMAIN appointments
        /\ appointments[booking.id] = booking
        /\ response = Response(201, Some(booking))

\* A booking whose patient row is missing: no reminder could be built, and
\* the request succeeded.
C24_Witness ==
    /\ planned.done
    /\ planned.reminders = <<>>
    /\ booking.patient = None
    /\ booking.id \in DOMAIN appointments
    /\ response = Response(201, Some(booking))

\* C25: within one process_scheduled_reminders run a dispatch failure or an
\* exception on one due event changes only that event's record: every other
\* due event ends the run as it would have with the failing event absent from
\* the batch, and the events that were not due are left alone.
C25_FailureStaysWithItsEvent ==
    [][\A fates \in [DueReminders(reminders, now) -> Fates] :
          ProcessScheduledRemindersWith(fates) =>
            LET due == DueReminders(reminders, now)
            IN /\ \A r \in ReminderIds \ due : reminders'[r] = reminders[r]
               /\ \A f \in due :
                     reminders'[f].status = "failed" =>
                       LET without == [r \in ReminderIds \ {f} |-> reminders[r]]
                           rest == [r \in due \ {f} |-> fates[r]]
                           alone == ProcessSession(without, appointments, now, rest)
                       IN \A r \in due \ {f} : reminders'[r] = alone[r]]_vars

\* One run in which the lookup for a due event raised and a later due event
\* was sent.
C25_Witness ==
    /\ now = 0
    /\ \E f, r \in ReminderIds :
          /\ f < r
          /\ reminders[f].status = "failed"
          /\ reminders[f].error_message = Some("lookup error")
          /\ reminders[r].status = "sent"
          /\ reminders[r].sent_time = Some(0)

\* C26: over any sequence of process_scheduled_reminders runs, runs that
\* return {'success': False} included, send_reminder is called at most once
\* for each reminder, and a reminder whose dispatch succeeded is never
\* dispatched again.
C26_DispatchedAtMostOnce ==
    \A r \in ReminderIds :
        /\ Len(dispatched[r]) <= 1
        /\ \A i \in 1..Len(dispatched[r]) :
              dispatched[r][i].success => i = Len(dispatched[r])

\* C27: the message dispatched for a reminder is the message stored on it
\* when it was planned, the template of its own channel and category.
C27_DispatchedMessageIsStored ==
    \A r \in ReminderIds :
        (reminders[r].status = "sent"
           /\ reminders[r].appointment_id \in DOMAIN appointments)
            => SentMessage(appointments[reminders[r].appointment_id],
                           reminders[r].reminder_type)
                 = Some(reminders[r].message_content)

\* C28: after an appointment is cancelled or moved to a new time, no
\* reminder planned for its old schedule and still 'scheduled' is dispatched
\* by a process_scheduled_reminders run.
C28_StaleRemindersNotDispatched ==
    [][ProcessScheduledReminders =>
         \A r \in ReminderIds :
            LET a == reminders[r].appointment_id
            IN (/\ reminders[r].status = "scheduled"
                /\ a \in DOMAIN appointments
                /\ \/ appointments[a].status = "cancelled"
                   \/ appointments[a].appointment_time
                        # reminders[r].message_content.appointment_time)
                 => dispatched'[r] = dispatched[r]]_vars

\* C29: in every assessment predict_no_show returns, the tier agrees with the
\* returned probability (rounded to three decimals): no probability of 0.1
\* or more comes with 'low', none of 0.25 or more with 'medium'.
C29_TierAgreesWithReturnedProbability ==
    (predicting.pc = "done" /\ ~predicting.outcome[1].raised) =>
        /\ LastAssessment.probability >= LowThreshold
             => LastAssessment.risk_level # "low"
        /\ LastAssessment.probability >= MediumThreshold
             => LastAssessment.risk_level # "medium"

\* C30: in every reachable state the fields of each reminder agree with its
\* status: 'sent' has sent_time set, delivery_status 'delivered' and no
\* error_message; 'failed' has error_message set and no sent_time;
\* 'scheduled' and 'cancelled' have none of the three.
C30_FieldsAgreeWithStatus ==
    \A r \in ReminderIds :
        LET rem == reminders[r]
        IN /\ rem.status = "sent"
                => /\ rem.sent_time # None
                   /\ rem.delivery_status = Some("delivered")
                   /\ rem.error_message = None
           /\ rem.status = "failed"
                => /\ rem.error_message # None
                   /\ rem.sent_time = None
           /\ rem.status \in {"scheduled", "cancelled"}
                => /\ rem.sent_time = None
                   /\ rem.delivery_status = None
                   /\ rem.error_message = None

====
